---- MODULE Spec2Model ----
(***************************************************************************)
(* Model of the actor-critic training core of qbm-rl-steering:             *)
(*   core/utils.py  ReplayBuffer (the experience store)                    *)
(*   core/qac.py    QuantumActorCritic (get_action, train_critic,          *)
(*                  _soft_update_actor_and_critic, train,                  *)
(*                  get_action_derivative)                                 *)
(* Real numbers are modelled as fixed-point integers: one unit is 1/Unit.  *)
(* In get_action_derivative array entries are floats of Precision bits.    *)
(***************************************************************************)
EXTENDS Integers, Sequences, FiniteSets, TLC

\* ---------------------------------------------------------------- bounds
MaxCap == 2            \* largest capacity C of the experience store
MaxPushes == 3         \* number of push calls explored
MaxBatch == 2          \* largest batch_size handed to sample
MaxTrain == 2          \* number of completed train() calls explored
Unit == 2              \* fixed-point resolution: the real 1.0 is Unit
ActionN == 2           \* action dimensions explored (env.action_space.shape[0])
MaxEpisode == 2        \* largest episode index handed to get_action
Precision == 2         \* significant bits a float32 array entry keeps

\* ------------------------------------------------------- input alphabets
ActVals == {1, 2}      \* action values a transition may carry
RewVals == {0, 1}      \* rewards (the alternating {0,1} of the scenario)
DoneVals == {0, 1}     \* done flag as stored in the float32 array

PredVals == {-Unit, Unit}   \* outputs of the target actor (tanh range ends)
BatchSizes == {1, 2}   \* batch_size values handed to __init__
QVals == {0}                 \* q values a critic evaluation may return

VARIABLES
  max_size,    \* ReplayBuffer.max_size  (capacity C)
  ptr,         \* ReplayBuffer.ptr       (next write slot)
  size,        \* ReplayBuffer.size      (number of valid slots)
  obs1_buf,    \* ReplayBuffer.obs1_buf  slot -> state
  obs2_buf,    \* ReplayBuffer.obs2_buf  slot -> next state
  acts_buf,    \* ReplayBuffer.acts_buf  slot -> action
  rews_buf,    \* ReplayBuffer.rews_buf  slot -> reward
  done_buf,    \* ReplayBuffer.done_buf  slot -> done
  pushes,      \* number of push calls made so far (the id of the last push)
  call,        \* the last call made and its arguments
  ret,         \* what the last sample call produced
  critic,            \* self.critic: [w_hh, w_vh], each key -> coefficient
  critic_target,     \* self.critic_target
  actor,             \* self.actor.get_weights(): parameter -> value
  actor_target,      \* self.actor_target.get_weights()
  tau_soft_update,   \* self.tau_soft_update, in 1/Unit
  replay_batch_size, \* self.replay_batch_size
  q_losses,          \* self.q_losses
  pc,                \* position inside train(): the call that runs next
  steps,             \* the calls train() has completed in its latest run
  batch,             \* train(): states, actions, rewards, next_states, dones
  next_actions,      \* train_critic(): next_actions
  jj,                \* train_critic(): loop index
  q_loss_batch,      \* train_critic(): q_loss_batch
  completed,         \* number of train() calls that have returned
  late_raised,       \* number of train() calls that raised after train_critic
  low,               \* env.action_space.low, per action coordinate
  high,              \* env.action_space.high, per action coordinate
  action_limit,      \* self.action_limit
  action_noise_scale,  \* self.action_noise_scale
  action,            \* what the last get_action call returned (one row)
  synthetic,         \* get_action_derivative: which synthetic critic it uses
  d_states,          \* get_action_derivative: the caller's states array
  d_actions,         \* get_action_derivative: the caller's actions array
  epsilon,           \* get_action_derivative: epsilon
  evals,             \* the batched critic evaluations it made, in order
  grads              \* what get_action_derivative returned

bufvars == <<max_size, ptr, size, obs1_buf, obs2_buf, acts_buf, rews_buf,
             done_buf>>
netvars == <<critic, critic_target, actor, actor_target>>
cfgvars == <<tau_soft_update, replay_batch_size>>
trainvars == <<q_losses, pc, steps, batch, next_actions, jj, q_loss_batch>>
histvars == <<completed, late_raised>>
envvars == <<low, high, action_limit, action_noise_scale>>
gradvars == <<synthetic, d_states, d_actions, epsilon, evals, grads>>
vars == <<bufvars, pushes, call, ret, netvars, cfgvars, trainvars, histvars,
          envvars, action, gradvars>>

Min(a, b) == IF a <= b THEN a ELSE b
Max(a, b) == IF a >= b THEN a ELSE b

\* ------------------------------------------------------------ ReplayBuffer
Slots == 0 .. (max_size - 1)

\* np.zeros([size, ...]): every slot of a new array holds 0
zeros(C) == [i \in 0 .. (C - 1) |-> 0]

\* ReplayBuffer.__init__(size, obs_dim, act_dim)
BufferInit(C) ==
  /\ max_size = C
  /\ ptr = 0
  /\ size = 0
  /\ obs1_buf = zeros(C)
  /\ obs2_buf = zeros(C)
  /\ acts_buf = zeros(C)
  /\ rews_buf = zeros(C)
  /\ done_buf = zeros(C)

\* self.ptr = (self.ptr + 1) % self.max_size
NextPtrStick(p, C) == IF p + 1 < C THEN p + 1 ELSE p
NextPtr(p, C) == (p + 1) % C

\* self.size = min(self.size + 1, self.max_size)
NextSizeUnbounded(s, C) == s + 1
NextSize(s, C) == Min(s + 1, C)

\* buf[self.ptr] = value
SetSlotAfterAdvance(buf, p, v) ==
  [buf EXCEPT ![(p + 1) % Cardinality(DOMAIN buf)] = v]
SetSlot(buf, p, v) == [buf EXCEPT ![p] = v]

\* ReplayBuffer.push(obs, act, rew, next_obs, done)
push(obs, act, rew, next_obs, done) ==
  /\ obs1_buf' = SetSlot(obs1_buf, ptr, obs)
  /\ obs2_buf' = SetSlot(obs2_buf, ptr, next_obs)
  /\ acts_buf' = SetSlot(acts_buf, ptr, act)
  /\ rews_buf' = SetSlot(rews_buf, ptr, rew)
  /\ done_buf' = SetSlot(done_buf, ptr, done)
  /\ ptr' = NextPtr(ptr, max_size)
  /\ size' = NextSize(size, max_size)
  /\ UNCHANGED max_size

\* np.random.randint(lo, hi, size=n): the index vectors it can draw, {} when
\* it raises ValueError.  With n = 0 numpy returns an empty array before it
\* looks at the range; with n > 0 an empty range raises "low >= high".
randintClamped(lo, hi, n) ==
  IF n = 0 THEN {<< >>}
  ELSE [1 .. n -> lo .. (Max(hi, lo + 1) - 1)]
randint(lo, hi, n) ==
  IF n = 0 THEN {<< >>}
  ELSE IF lo >= hi THEN {}
  ELSE [1 .. n -> lo .. (hi - 1)]

\* buf[idxs]: fancy indexing, one entry per index
Take(buf, idxs) == [k \in DOMAIN idxs |-> buf[idxs[k]]]

NoRet == [status |-> "none", idxs |-> << >>, s |-> << >>, a |-> << >>,
          r |-> << >>, s2 |-> << >>, d |-> << >>]
ErrRet == [NoRet EXCEPT !.status = "error"]

\* ReplayBuffer.sample(batch_size): the batches it can return
sampleWholeBuffer(batch_size) ==
  { [status |-> "ok", idxs |-> idxs,
     s  |-> Take(obs1_buf, idxs),
     a  |-> Take(acts_buf, idxs),
     r  |-> Take(rews_buf, idxs),
     s2 |-> Take(obs2_buf, idxs),
     d  |-> Take(done_buf, idxs)] : idxs \in randint(0, max_size, batch_size) }
sample(batch_size) ==
  { [status |-> "ok", idxs |-> idxs,
     s  |-> Take(obs1_buf, idxs),
     a  |-> Take(acts_buf, idxs),
     r  |-> Take(rews_buf, idxs),
     s2 |-> Take(obs2_buf, idxs),
     d  |-> Take(done_buf, idxs)] : idxs \in randint(0, size, batch_size) }

\* ------------------------------------------------- critic capability (QFunction)
KeysHH == {"h1h2"}           \* structural keys of w_hh
KeysVH == {"v1h1"}           \* structural keys of w_vh
ActorParams == {"kernel"}    \* entries of the actor's parameter snapshot
Vals == {0, 1}               \* coefficients a weight may take
TauVals == {0, Unit \div 2, Unit}   \* tau = 0.0, about 0.5, 1.0

\* QFunction(**kwargs_q_func): random couplings on the structure the
\* environment's spaces fix
QFunction == [w_hh : [KeysHH -> Vals], w_vh : [KeysVH -> Vals]]

\* critic.calculate_q_value(state, action): the (q_value, spin_configs)
\* pairs it may return; the internal representation belongs to the pair it
\* was sampled for and to the weights it was sampled from
calculate_q_value(c, st, ac) ==
  { [q |-> q, repr |-> <<st, ac, c>>] : q \in QVals }

\* critic.update_weights(spin_configs, visible_nodes, q, next_q, reward, lr):
\* the weights it may leave behind; coefficients change, keys do not
update_weights(c, repr, q, next_q, reward) ==
  [w_hh : [DOMAIN c.w_hh -> Vals], w_vh : [DOMAIN c.w_vh -> Vals]]

\* self.critic.small_gamma, in 1/Unit
small_gamma == Unit

\* ------------------------------------------------- QuantumActorCritic
\* self.replay_buffer_size = int(1e5), scaled down to a store that fills up
replay_buffer_size == 2

\* __init__: for k in self.critic.w_hh.keys(): target[k] = local[k]
CopyWeights(local, target) ==
  [k \in (DOMAIN target) \cup (DOMAIN local) |->
     IF k \in DOMAIN local THEN local[k] ELSE target[k]]

\* tau * local_weight + (1.0 - tau) * target_weight
PolyakSwapped(tau, l, t) == (tau * t + (Unit - tau) * l) \div Unit
PolyakNoDecay(tau, l, t) == (tau * l + Unit * t) \div Unit
Polyak(tau, l, t) == (tau * l + (Unit - tau) * t) \div Unit

\* _soft_update_actor_and_critic: for k in local.keys(): target[k] = blend
SoftUpdatePrune(tau, local, target) ==
  [k \in {x \in DOMAIN local : Polyak(tau, local[x], target[x]) # 0} |->
     Polyak(tau, local[k], target[k])]
SoftUpdate(tau, local, target) ==
  [k \in (DOMAIN target) \cup (DOMAIN local) |->
     IF k \in DOMAIN local THEN Polyak(tau, local[k], target[k])
     ELSE target[k]]

\* the calls of train(), in the order the method makes them
train_calls_sync_first == <<"get_sample", "train_critic", "soft_update", "train_actor">>
train_calls == <<"get_sample", "train_critic", "train_actor", "soft_update">>

\* the call train() makes after its n-th call has returned
AfterCall(n) == IF n < Len(train_calls) THEN train_calls[n + 1] ELSE "idle"

\* q_loss_batch.mean()
RECURSIVE SumSeq(_)
SumSeq(q) == IF q = << >> THEN 0 ELSE Head(q) + SumSeq(Tail(q))
mean(q) == SumSeq(q) \div Len(q)

NoBatch == NoRet

\* state of the trainer pipeline when no train() call is running
TrainIdle ==
  /\ pc = "idle"
  /\ steps = << >>
  /\ batch = NoBatch
  /\ next_actions = << >>
  /\ jj = 0
  /\ q_loss_batch = << >>

\* no get_action_derivative call is being looked at
NoDerivative ==
  /\ synthetic = "none"
  /\ d_states = << >>
  /\ d_actions = << >>
  /\ epsilon = 0
  /\ evals = << >>
  /\ grads = << >>

Abs(x) == IF x < 0 THEN -x ELSE x

RECURSIVE MaxOf(_)
MaxOf(S) == LET x == CHOOSE y \in S : TRUE
            IN IF S = {x} THEN x ELSE Max(x, MaxOf(S \ {x}))

\* max(max(np.abs(env.action_space.high)), max(np.abs(env.action_space.low)))
ActionLimit(lo, hi) ==
  Max(MaxOf({Abs(hi[i]) : i \in DOMAIN hi}),
      MaxOf({Abs(lo[i]) : i \in DOMAIN lo}))

\* the environment handed to __init__ and the action parameters read from it
EnvInit(lo, hi, noise) ==
  /\ low = lo
  /\ high = hi
  /\ action_limit = ActionLimit(lo, hi)
  /\ action_noise_scale = noise
  /\ action = << >>

\* an environment whose every action coordinate ranges over [-1, 1]
UnitBox == [i \in 1 .. ActionN |-> Unit]
NegUnitBox == [i \in 1 .. ActionN |-> -Unit]

\* __init__ of QuantumActorCritic: networks, their synchronisation, the
\* replay memory and the loss trace
TrainerInit ==
  /\ critic \in QFunction
  /\ \E t \in QFunction :
       critic_target = [w_hh |-> CopyWeights(critic.w_hh, t.w_hh),
                        w_vh |-> CopyWeights(critic.w_vh, t.w_vh)]
  /\ actor \in [ActorParams -> Vals]
  /\ actor_target = actor
  /\ tau_soft_update \in TauVals
  /\ replay_batch_size \in BatchSizes
  /\ q_losses = << >>
  /\ completed = 0
  /\ late_raised = 0
  /\ TrainIdle

Init ==
  /\ BufferInit(replay_buffer_size)
  /\ pushes = 0
  /\ call = [op |-> "__init__", arg |-> << >>]
  /\ ret = NoRet
  /\ TrainerInit
  /\ EnvInit(NegUnitBox, UnitBox, 0)
  /\ NoDerivative

\* what train() leaves behind when it returns or raises: its locals are gone
Locals(p, b, na, j, qlb) ==
  /\ pc' = p
  /\ batch' = IF p = "idle" THEN NoBatch ELSE b
  /\ next_actions' = IF p = "idle" THEN << >> ELSE na
  /\ jj' = IF p = "idle" THEN 0 ELSE j
  /\ q_loss_batch' = IF p = "idle" THEN << >> ELSE qlb

\* a call of train() has returned: log it and go on to the next one
Returned(name) ==
  /\ steps' = Append(steps, name)
  /\ Locals(AfterCall(Len(steps) + 1), batch, next_actions, jj, q_loss_batch)
  /\ completed' = IF AfterCall(Len(steps) + 1) = "idle" THEN completed + 1
                  ELSE completed
  /\ UNCHANGED late_raised

\* the environment loop stores one transition (rewards alternate 0, 1)
EnvPush ==
  /\ pc = "idle"
  /\ pushes < MaxPushes
  /\ push(pushes + 1, 1, pushes % 2, pushes + 2, 0)
  /\ pushes' = pushes + 1
  /\ call' = [op |-> "push", arg |-> <<pushes + 1, 1, pushes % 2, pushes + 2, 0>>]
  /\ UNCHANGED <<ret, netvars, cfgvars, histvars, trainvars, envvars, gradvars, action>>

\* train(): self.replay_memory.get_sample(batch_size=self.replay_batch_size);
\* the replay memory samples as the experience store does
TrainGetSample ==
  /\ pc = "idle"
  /\ Len(q_losses) < MaxTrain
  /\ IF sample(replay_batch_size) = {}
     THEN /\ call' = [op |-> "train", arg |-> <<"raised", "get_sample">>]
          /\ steps' = << >>
          /\ Locals("idle", batch, next_actions, jj, q_loss_batch)
     ELSE \E b \in sample(replay_batch_size) :
            /\ call' = [op |-> "get_sample", arg |-> <<replay_batch_size>>]
            /\ steps' = <<"get_sample">>
            /\ Locals(AfterCall(1), b, next_actions, jj, q_loss_batch)
  /\ UNCHANGED <<bufvars, pushes, ret, netvars, cfgvars, histvars, q_losses, envvars, gradvars, action>>

\* train_critic(): next_actions = self.get_target_actions(next_states);
\* q_loss_batch = np.zeros(len(states))
TrainCriticEnter ==
  /\ pc = "train_critic"
  /\ pc' = "train_critic.loop"
  /\ next_actions' \in [1 .. Len(batch.s2) -> PredVals]
  /\ q_loss_batch' = [k \in 1 .. Len(batch.s) |-> 0]
  /\ jj' = 0
  /\ call' = [op |-> "get_target_actions", arg |-> << >>]
  /\ UNCHANGED <<bufvars, pushes, ret, netvars, cfgvars, histvars, q_losses, steps, batch,
                 envvars, gradvars, action>>

\* train_critic(), sample j: the local evaluation read the target's weights
local_eval_on_target(j) ==
  calculate_q_value(critic_target, batch.s[j + 1], batch.a[j + 1])

\* train_critic(), sample j:
\* self.critic.calculate_q_value(states[jj], actions[jj])
local_eval(j) ==
  calculate_q_value(critic, batch.s[j + 1], batch.a[j + 1])

\* train_critic(), sample j: self.critic_target.calculate_q_value(
\* state=next_states[jj], action=next_actions[jj])
target_eval(j) ==
  calculate_q_value(critic_target, batch.s2[j + 1], next_actions[j + 1])

\* train_critic(): one pass of the loop body, for sample jj
TrainCriticSample ==
  /\ pc = "train_critic.loop"
  /\ jj < Len(batch.s)
  /\ \E e \in local_eval(jj), n \in target_eval(jj) :
       /\ critic' \in update_weights(critic, e.repr, e.q, n.q, batch.r[jj + 1])
       /\ LET q_target == batch.r[jj + 1] + (small_gamma * n.q) \div Unit
              q_loss == (e.q - q_target) * (e.q - q_target)
          IN q_loss_batch' = [q_loss_batch EXCEPT ![jj + 1] = q_loss]
       /\ call' = [op |-> "update_weights",
                   arg |-> <<jj, e.repr, n.repr, batch.r[jj + 1]>>]
  /\ jj' = jj + 1
  /\ UNCHANGED <<bufvars, pushes, ret, critic_target, actor, actor_target,
                 cfgvars, histvars, q_losses, pc, steps, batch, next_actions, envvars, gradvars,
                 action>>

\* train_critic(): the exception of a critic call is swallowed and the loop
\* goes on with the next sample
TrainCriticRaiseSwallowed ==
  /\ pc = "train_critic.loop"
  /\ jj < Len(batch.s)
  /\ call' = [op |-> "train", arg |-> <<"raised", "train_critic", jj>>]
  /\ jj' = jj + 1
  /\ UNCHANGED <<bufvars, pushes, ret, netvars, cfgvars, histvars, q_losses,
                 pc, steps, batch, next_actions, q_loss_batch, envvars, gradvars, action>>

\* train_critic(): a critic call throws while sample jj is processed; the
\* exception leaves train_critic() and train()
TrainCriticRaise ==
  /\ pc = "train_critic.loop"
  /\ jj < Len(batch.s)
  /\ call' = [op |-> "train", arg |-> <<"raised", "train_critic", jj>>]
  /\ Locals("idle", batch, next_actions, jj, q_loss_batch)
  /\ UNCHANGED <<bufvars, pushes, ret, netvars, cfgvars, histvars, q_losses, steps, envvars, gradvars,
                 action>>

\* train_critic(): the loop is over and nothing is appended to the trace
TrainCriticExitNoTrace ==
  /\ pc = "train_critic.loop"
  /\ jj = Len(batch.s)
  /\ call' = [op |-> "train_critic", arg |-> <<jj>>]
  /\ Returned("train_critic")
  /\ UNCHANGED <<bufvars, pushes, ret, netvars, cfgvars, q_losses, envvars, gradvars,
                 action>>

\* train_critic(): the loop is over; self.q_losses.append(q_loss_batch.mean())
TrainCriticExit ==
  /\ pc = "train_critic.loop"
  /\ jj = Len(batch.s)
  /\ q_losses' = Append(q_losses, mean(q_loss_batch))
  /\ call' = [op |-> "train_critic", arg |-> <<jj>>]
  /\ Returned("train_critic")
  /\ UNCHANGED <<bufvars, pushes, ret, netvars, cfgvars, envvars, gradvars, action>>

\* train_actor(): self.actor.train_on_batch(states, states)
TrainActor ==
  /\ pc = "train_actor"
  /\ actor' \in [DOMAIN actor -> Vals]
  /\ call' = [op |-> "train_actor", arg |-> << >>]
  /\ Returned("train_actor")
  /\ UNCHANGED <<bufvars, pushes, ret, critic, critic_target, actor_target,
                 cfgvars, q_losses, envvars, gradvars, action>>

\* train_actor(): train_on_batch throws (the actor network, or the batched
\* critic evaluation its loss makes); the exception leaves train()
TrainActorRaise ==
  /\ pc = "train_actor"
  /\ call' = [op |-> "train", arg |-> <<"raised", "train_actor">>]
  /\ Locals("idle", batch, next_actions, jj, q_loss_batch)
  /\ late_raised' = late_raised + 1
  /\ UNCHANGED <<bufvars, pushes, ret, netvars, cfgvars, completed, q_losses,
                 steps, envvars, gradvars, action>>

\* _soft_update_actor_and_critic() that also writes the blend back into the
\* local critic
soft_update_also_local ==
  /\ critic_target' =
       [w_hh |-> SoftUpdate(tau_soft_update, critic.w_hh, critic_target.w_hh),
        w_vh |-> SoftUpdate(tau_soft_update, critic.w_vh, critic_target.w_vh)]
  /\ actor_target' = [k \in DOMAIN actor_target |->
                        Polyak(tau_soft_update, actor[k], actor_target[k])]
  /\ call' = [op |-> "soft_update",
              arg |-> <<critic_target' # critic_target \/ actor_target' # actor_target>>]
  /\ critic' = critic_target'
  /\ UNCHANGED actor

\* _soft_update_actor_and_critic()
soft_update ==
  /\ critic_target' =
       [w_hh |-> SoftUpdate(tau_soft_update, critic.w_hh, critic_target.w_hh),
        w_vh |-> SoftUpdate(tau_soft_update, critic.w_vh, critic_target.w_vh)]
  /\ actor_target' = [k \in DOMAIN actor_target |->
                        Polyak(tau_soft_update, actor[k], actor_target[k])]
  /\ call' = [op |-> "soft_update",
              arg |-> <<critic_target' # critic_target \/ actor_target' # actor_target>>]
  /\ UNCHANGED <<critic, actor>>

\* train(): self._soft_update_actor_and_critic()
TrainSoftUpdate ==
  /\ pc = "soft_update"
  /\ soft_update
  /\ Returned("soft_update")
  /\ UNCHANGED <<bufvars, pushes, ret, cfgvars, q_losses, envvars, gradvars, action>>

\* _soft_update_actor_and_critic() called on its own
SoftUpdateCall ==
  /\ pc = "idle"
  /\ soft_update
  /\ UNCHANGED <<bufvars, pushes, ret, cfgvars, histvars, trainvars, envvars, gradvars, action>>

Next ==
  \/ EnvPush
  \/ TrainGetSample
  \/ TrainCriticEnter
  \/ TrainCriticSample
  \/ TrainCriticRaise
  \/ TrainCriticExit
  \/ TrainActor
  \/ TrainActorRaise
  \/ TrainSoftUpdate
  \/ SoftUpdateCall

Spec == Init /\ [][Next]_vars

\* ------------------------------------------------- the experience store alone
\* no QuantumActorCritic has been built around the store
NoTrainer ==
  /\ critic = << >>
  /\ critic_target = << >>
  /\ actor = << >>
  /\ actor_target = << >>
  /\ tau_soft_update = 0
  /\ replay_batch_size = 0
  /\ q_losses = << >>
  /\ completed = 0
  /\ late_raised = 0
  /\ TrainIdle
  /\ low = << >>
  /\ high = << >>
  /\ action_limit = 0
  /\ action_noise_scale = 0
  /\ action = << >>

InitBuffer ==
  /\ \E C \in 1 .. MaxCap : BufferInit(C)
  /\ pushes = 0
  /\ call = [op |-> "__init__", arg |-> << >>]
  /\ ret = NoRet
  /\ NoTrainer
  /\ NoDerivative

\* a push call; the state carries the id of the push
Push ==
  /\ pushes < MaxPushes
  /\ \E act \in ActVals, rew \in RewVals, done \in DoneVals :
       /\ push(pushes + 1, act, rew, pushes + 2, done)
       /\ call' = [op |-> "push", arg |-> <<pushes + 1, act, rew, pushes + 2, done>>]
  /\ pushes' = pushes + 1
  /\ ret' = NoRet
  /\ UNCHANGED <<netvars, cfgvars, histvars, trainvars, envvars, gradvars, action>>

\* a sample call: it returns a batch or raises
Sample ==
  /\ \E batch_size \in 0 .. MaxBatch :
       /\ call' = [op |-> "sample", arg |-> <<batch_size>>]
       /\ IF sample(batch_size) = {}
          THEN ret' = ErrRet
          ELSE ret' \in sample(batch_size)
  /\ UNCHANGED <<bufvars, pushes, netvars, cfgvars, histvars, trainvars, envvars, gradvars, action>>

NextBuffer ==
  \/ Push
  \/ Sample

SpecBuffer == InitBuffer /\ [][NextBuffer]_vars

\* ------------------------------------------------- action selection alone
BoundPairs == {<<-Unit, Unit>>, <<-Unit, 2 * Unit>>, <<-(2 * Unit), Unit>>,
               <<-(Unit \div 2), Unit \div 2>>}   \* [low, high] of a coordinate
NoiseVals == {0, Unit, 4 * Unit}    \* noise scales: 0.0, 1.0, 4.0
TanhVals == {-Unit, 0, Unit}        \* outputs of the actor's tanh layer
RandnVals == {-2, 0, 2}             \* draws of np.random.randn

\* np.clip(x, lo, hi)
Clip(x, lo, hi) == Max(lo, Min(x, hi))

\* get_action(states, noise, episode) for a single state: raw is what
\* self.actor.predict_on_batch returns, randn what np.random.randn draws,
\* noise_arg is << >> for None
get_action(noise_arg, episode, raw, randn) ==
  LET noise == IF noise_arg = << >> THEN action_noise_scale ELSE noise_arg[1]
  IN IF noise # 0
     THEN [i \in DOMAIN raw |->
             Clip(raw[i] + (noise * randn[i]) \div episode,
                  -action_limit, action_limit)]
     ELSE raw

InitAction ==
  /\ BufferInit(replay_buffer_size)
  /\ pushes = 0
  /\ call = [op |-> "__init__", arg |-> << >>]
  /\ ret = NoRet
  /\ TrainerInit
  /\ critic = [w_hh |-> [k \in KeysHH |-> 0], w_vh |-> [k \in KeysVH |-> 0]]
  /\ actor = [k \in ActorParams |-> 0]
  /\ tau_soft_update = Unit
  /\ replay_batch_size = 1
  /\ \E b \in [1 .. ActionN -> BoundPairs], noise \in NoiseVals :
       EnvInit([i \in 1 .. ActionN |-> b[i][1]],
               [i \in 1 .. ActionN |-> b[i][2]], noise)
  /\ NoDerivative

GetAction ==
  /\ \E noise_arg \in {<< >>} \cup {<<n>> : n \in NoiseVals},
        episode \in 1 .. MaxEpisode,
        raw \in [1 .. ActionN -> TanhVals],
        randn \in [1 .. ActionN -> RandnVals] :
       /\ action' = get_action(noise_arg, episode, raw, randn)
       /\ call' = [op |-> "get_action", arg |-> <<noise_arg, episode>>]
  /\ UNCHANGED <<bufvars, pushes, ret, netvars, cfgvars, histvars, trainvars, envvars, gradvars>>

NextAction == GetAction

SpecAction == InitAction /\ [][NextAction]_vars

\* ------------------------------------------------- the gradient bridge alone
\* Array entries are float32: integers in units of the smallest step, kept to
\* Precision significant bits. The critic's q values and the difference
\* quotient are float64 and exact at these magnitudes; epsilon is a power of
\* two, so the division by 2 * epsilon is exact and a quotient is the pair
\* <<numerator, denominator>>.
GradActVals == {-3, -1, 0, 1, 3}     \* action entries (float32 values)
EpsVals == {1, 2, 8, 16}             \* epsilon
CriticKinds == {"negnorm", "linear"} \* synthetic critics

RECURSIVE Pow2(_)
Pow2(n) == IF n = 0 THEN 1 ELSE 2 * Pow2(n - 1)

\* number of bits of m >= 0
RECURSIVE BitLen(_)
BitLen(m) == IF m = 0 THEN 0 ELSE 1 + BitLen(m \div 2)

\* the float32 nearest to x, ties to the even mantissa
float32(x) ==
  LET m == Abs(x)
      e == IF BitLen(m) > Precision THEN BitLen(m) - Precision ELSE 0
      u == Pow2(e)
      q == m \div u
      r == m % u
      up == (2 * r > u) \/ (2 * r = u /\ q % 2 = 1)
      m2 == (IF up THEN q + 1 ELSE q) * u
  IN IF x < 0 THEN -m2 ELSE m2

\* critic.calculate_q_value_on_batch(states, actions) of a synthetic critic:
\* Q(s, a) = -||a||^2, or Q(s, a) = s + sum_k k * a_k
calculate_q_value_on_batch(kind, sts, acts) ==
  [j \in DOMAIN sts |->
     IF kind = "negnorm"
     THEN -SumSeq([k \in DOMAIN acts[j] |-> acts[j][k] * acts[j][k]])
     ELSE sts[j] + SumSeq([k \in DOMAIN acts[j] |-> k * acts[j][k]])]

\* actions_tmp = np.asarray(actions); actions_tmp[:, i] += d: no copy, the
\* caller's array is shifted as well
perturb_in_place(acts, i, d) ==
  LET shifted == [j \in DOMAIN acts |-> [acts[j] EXCEPT ![i] = float32(@ + d)]]
  IN [tmp |-> shifted, caller |-> shifted]

\* actions_tmp = np.array(actions).copy(); actions_tmp[:, i] += d
perturb(acts, i, d) ==
  [tmp |-> [j \in DOMAIN acts |-> [acts[j] EXCEPT ![i] = float32(@ + d)]],
   caller |-> acts]

\* (qeps_minus - qeps_plus) / (2 * epsilon)
central_difference_swapped(qeps_plus, qeps_minus, eps) ==
  <<qeps_minus - qeps_plus, 2 * eps>>

\* np.float_((qeps_plus - qeps_minus) / (2 * epsilon)), one entry
central_difference(qeps_plus, qeps_minus, eps) ==
  <<qeps_plus - qeps_minus, 2 * eps>>

\* get_action_derivative(): the body of the loop, for action coordinate i
derivative_pass(kind, sts, eps, i, acc) ==
  LET plus == perturb(acc.actions, i, eps)
      qeps_plus == calculate_q_value_on_batch(kind, sts, plus.tmp)
      minus == perturb(plus.caller, i, -eps)
      qeps_minus == calculate_q_value_on_batch(kind, sts, minus.tmp)
      grad_ == [j \in DOMAIN qeps_plus |->
                  central_difference(qeps_plus[j], qeps_minus[j], eps)]
  IN [actions |-> minus.caller,
      grads |-> [j \in DOMAIN acc.grads |->
                   [acc.grads[j] EXCEPT ![i] = grad_[j]]],
      evals |-> acc.evals \o
                <<[states |-> sts, actions |-> plus.tmp, q |-> qeps_plus],
                  [states |-> sts, actions |-> minus.tmp, q |-> qeps_minus]>>]

\* get_action_derivative(): for i in range(self.action_n)
RECURSIVE derivative_loop(_, _, _, _, _)
derivative_loop(kind, sts, eps, i, acc) ==
  IF i > ActionN THEN acc
  ELSE derivative_loop(kind, sts, eps, i + 1,
                       derivative_pass(kind, sts, eps, i, acc))

\* get_action_derivative(states, actions, epsilon): what it returns, the
\* evaluations it made and what it leaves in the caller's actions array
get_action_derivative(kind, sts, acts, eps) ==
  LET zeros2 == [j \in 1 .. replay_batch_size |-> [i \in 1 .. ActionN |-> <<0, 1>>]]
      out == derivative_loop(kind, sts, eps, 1,
                             [actions |-> acts, grads |-> zeros2, evals |-> << >>])
      cast == [j \in DOMAIN out.grads |->
                 [i \in 1 .. ActionN |->
                    <<float32(out.grads[j][i][1]), out.grads[j][i][2]>>]]
  IN [grads |-> [i \in 1 .. ActionN |-> [j \in DOMAIN cast |-> cast[j][i]]],
      evals |-> out.evals,
      actions |-> out.actions]

InitDerivative ==
  /\ BufferInit(replay_buffer_size)
  /\ pushes = 0
  /\ call = [op |-> "__init__", arg |-> << >>]
  /\ ret = NoRet
  /\ TrainerInit
  /\ critic = [w_hh |-> [k \in KeysHH |-> 0], w_vh |-> [k \in KeysVH |-> 0]]
  /\ actor = [k \in ActorParams |-> 0]
  /\ tau_soft_update = Unit
  /\ EnvInit(NegUnitBox, UnitBox, 0)
  /\ synthetic \in CriticKinds
  /\ d_states = [j \in 1 .. replay_batch_size |-> j]
  /\ d_actions \in [1 .. replay_batch_size -> [1 .. ActionN -> GradActVals]]
  /\ epsilon \in EpsVals
  /\ evals = << >>
  /\ grads = << >>

\* one call of get_action_derivative on the minibatch
GetActionDerivative ==
  /\ call.op = "__init__"
  /\ LET out == get_action_derivative(synthetic, d_states, d_actions, epsilon)
     IN /\ grads' = out.grads
        /\ evals' = out.evals
        /\ d_actions' = out.actions
  /\ call' = [op |-> "get_action_derivative", arg |-> <<epsilon>>]
  /\ UNCHANGED <<bufvars, pushes, ret, netvars, cfgvars, histvars, trainvars,
                 envvars, action, synthetic, d_states, epsilon>>

NextDerivative == GetActionDerivative

SpecDerivative == InitDerivative /\ [][NextDerivative]_vars

\* ================================================================ claims
\* ---- the experience store (SpecBuffer)

\* C1: for every capacity C >= 1 and every sequence of pushes,
\* 0 <= size <= C holds initially and after every push.
BufferSizeBound == max_size >= 1 /\ 0 <= size /\ size <= max_size

\* C1 witness: a push has been made on a store that was already full.
BufferFullPushed == call.op = "push" /\ pushes > max_size /\ size = max_size

\* C2: after N > C pushes tagged 1..N, every entry a sample call returns,
\* for any batch size and any index draw, carries an id among the most
\* recent C pushes, N-C+1 .. N, and is the transition pushed under that id.
SampleOnlyRecent ==
  (call.op = "sample" /\ ret.status = "ok" /\ pushes > max_size) =>
    \A k \in DOMAIN ret.s :
      /\ ret.s[k] >= pushes - max_size + 1
      /\ ret.s[k] <= pushes
      /\ ret.s2[k] = ret.s[k] + 1

\* C2 witness: with N > C >= 2 pushes made, a batch of C entries has been
\* returned that holds the oldest entry still allowed, N-C+1.
SampledOldestKept ==
  /\ call.op = "sample"
  /\ ret.status = "ok"
  /\ max_size >= 2
  /\ pushes > max_size
  /\ Len(ret.s) = max_size
  /\ \E k \in DOMAIN ret.s : ret.s[k] = pushes - max_size + 1

\* C3: each push writes the five fields of its transition into slot ptr (as
\* it was before the call) and no other slot, sets ptr to (ptr+1) mod C and
\* size to min(size+1, C); so after n pushes ptr = n mod C and
\* size = min(n, C), and on a full store the slot written next holds the
\* oldest stored transition.
PushWritesSlot ==
  /\ [](/\ ptr = pushes % max_size
        /\ size = (IF pushes <= max_size THEN pushes ELSE max_size)
        /\ (pushes >= max_size =>
              \A i \in 0 .. (max_size - 1) : obs1_buf[ptr] <= obs1_buf[i]))
  /\ [][pushes' = pushes + 1 =>
          /\ obs1_buf' = [obs1_buf EXCEPT ![ptr] = call'.arg[1]]
          /\ acts_buf' = [acts_buf EXCEPT ![ptr] = call'.arg[2]]
          /\ rews_buf' = [rews_buf EXCEPT ![ptr] = call'.arg[3]]
          /\ obs2_buf' = [obs2_buf EXCEPT ![ptr] = call'.arg[4]]
          /\ done_buf' = [done_buf EXCEPT ![ptr] = call'.arg[5]]
          /\ ptr' = (ptr + 1) % max_size
          /\ size' = (IF size + 1 <= max_size THEN size + 1 ELSE max_size)]_vars

\* C3 witness: a push has wrapped around and overwritten a slot of a store
\* of capacity >= 2.
PushOverwrote ==
  /\ call.op = "push"
  /\ max_size >= 2
  /\ pushes > max_size
  /\ obs1_buf[(ptr + max_size - 1) % max_size] = pushes

\* C4: when size >= 1, sample(batch_size) returns exactly batch_size entries,
\* each the content of a slot with index in [0, size), hence of a slot that
\* was pushed and never of a zero-initialised one; also when
\* size < batch_size, where indices repeat and no error is raised.
SampleFromWritten ==
  (call.op = "sample" /\ size >= 1) =>
    /\ ret.status = "ok"
    /\ Len(ret.idxs) = call.arg[1]
    /\ Len(ret.s) = call.arg[1]
    /\ Len(ret.a) = call.arg[1]
    /\ Len(ret.r) = call.arg[1]
    /\ Len(ret.s2) = call.arg[1]
    /\ Len(ret.d) = call.arg[1]
    /\ \A k \in 1 .. call.arg[1] :
         /\ ret.idxs[k] >= 0
         /\ ret.idxs[k] < size
         /\ ret.s[k] >= 1
         /\ ret.s[k] = obs1_buf[ret.idxs[k]]
         /\ ret.a[k] = acts_buf[ret.idxs[k]]
         /\ ret.r[k] = rews_buf[ret.idxs[k]]
         /\ ret.s2[k] = obs2_buf[ret.idxs[k]]
         /\ ret.d[k] = done_buf[ret.idxs[k]]

\* C4 witness: a batch larger than the number of stored transitions has been
\* returned from a store that still has unwritten slots.
SampledMoreThanStored ==
  /\ call.op = "sample"
  /\ ret.status = "ok"
  /\ size >= 1
  /\ size < max_size
  /\ Len(ret.s) > size

\* C5 as stated: sample on a store with size = 0 ends in an error, for any
\* batch_size.
SampleEmptyAlwaysRaises ==
  (call.op = "sample" /\ size = 0) => ret.status = "error"

\* C5 amended: sample on a store with size = 0 ends in an error and returns
\* no batch for every batch_size >= 1; with batch_size = 0 it returns an
\* empty batch without error; in both cases no entry of the empty store is
\* returned and ptr, size and the arrays are left unchanged.
SampleEmptyRaisesUnlessEmptyBatch ==
  /\ []((call.op = "sample" /\ size = 0) =>
          /\ ret.status = (IF call.arg[1] >= 1 THEN "error" ELSE "ok")
          /\ ret.idxs = << >> /\ ret.s = << >> /\ ret.a = << >>
          /\ ret.r = << >> /\ ret.s2 = << >> /\ ret.d = << >>)
  /\ [][(call'.op = "sample" /\ size = 0) => UNCHANGED bufvars]_vars

\* C5 witness: a sample call asking for at least one entry has failed on the
\* empty store.
SampleEmptyRaised ==
  call.op = "sample" /\ size = 0 /\ call.arg[1] >= 1 /\ ret.status = "error"

\* ---- the trainer (Spec)

\* C6: the local and the target critic have the same key set for w_hh and
\* for w_vh in every reachable state: after construction, during and after
\* every train() call, and neither side gains or loses a key.
CriticKeySetsIdentical ==
  /\ DOMAIN critic.w_hh = DOMAIN critic_target.w_hh
  /\ DOMAIN critic.w_vh = DOMAIN critic_target.w_vh
  /\ DOMAIN critic.w_hh = KeysHH
  /\ DOMAIN critic.w_vh = KeysVH

\* C6 witness: two train() calls have run to their end, the last one having
\* changed the target in its soft update.
TrainedTwice ==
  /\ pc = "idle"
  /\ Len(q_losses) >= 2
  /\ Len(steps) = 4
  /\ call.op = "soft_update"
  /\ call.arg[1]

\* C7: every train() call makes its calls in the order get_sample, the
\* critic updates over the whole batch, one actor step, the soft update; the
\* soft update runs once, last, after the critic and the actor were updated;
\* a call that returns has made all four, one that raises stops where it
\* raised (in get_sample, in the critic loop or in the actor step).
TrainFixedOrder ==
  /\ \E n \in 0 .. 4 :
       steps = SubSeq(<<"get_sample", "train_critic", "train_actor",
                        "soft_update">>, 1, n)
  /\ pc \in {"train_critic", "train_critic.loop"} => steps = <<"get_sample">>
  /\ pc = "train_actor" =>
       /\ steps = <<"get_sample", "train_critic">>
       /\ jj = Len(batch.s)
       /\ jj = replay_batch_size
  /\ pc = "soft_update" => steps = <<"get_sample", "train_critic", "train_actor">>
  /\ pc = "idle" => (Len(steps) \in {0, 1, 2, 4})
  /\ pc \in {"idle", "train_critic", "train_critic.loop", "train_actor",
             "soft_update"}

\* C7 witness: a train() call has returned after its soft update.
TrainReturned ==
  /\ pc = "idle"
  /\ steps = <<"get_sample", "train_critic", "train_actor", "soft_update">>
  /\ call.op = "soft_update"
  /\ Len(q_losses) >= 1

\* C8: after a soft update with tau = 1.0 every target critic weight and the
\* target actor's parameters equal the local ones, whatever the target held
\* before; a soft update that follows directly changes nothing.
SoftUpdateTauOneCopies ==
  /\ []((call.op = "soft_update" /\ tau_soft_update = Unit) =>
          /\ critic_target = critic
          /\ actor_target = actor)
  /\ [][(call.op = "soft_update" /\ call'.op = "soft_update"
          /\ tau_soft_update = Unit) => UNCHANGED netvars]_vars

\* C8 witness: a soft update with tau = 1.0 has changed the target.
SoftUpdateTauOneMoved ==
  /\ call.op = "soft_update"
  /\ tau_soft_update = Unit
  /\ call.arg[1]

\* C9: a soft update with tau = 0.0 leaves every target critic weight and the
\* target actor's parameters unchanged, whatever the local weights are.
SoftUpdateTauZeroKeeps ==
  [][(call'.op = "soft_update" /\ tau_soft_update = 0) =>
       UNCHANGED <<critic_target, actor_target>>]_vars

\* C9 witness: a soft update with tau = 0.0 has run while the local critic
\* and actor differed from their targets in every weight.
SoftUpdateTauZeroDiffer ==
  /\ call.op = "soft_update"
  /\ tau_soft_update = 0
  /\ \A k \in KeysHH : critic.w_hh[k] # critic_target.w_hh[k]
  /\ \A k \in KeysVH : critic.w_vh[k] # critic_target.w_vh[k]
  /\ \A k \in ActorParams : actor[k] # actor_target[k]

\* C11, as stated: after k completed train() calls the TD-loss trace holds k
\* entries.
QLossPerCompletedCall ==
  pc = "idle" => Len(q_losses) = completed

\* C11, amended: the trace grows by exactly one entry when train_critic has
\* processed its whole batch (before the actor step and the synchronization)
\* and by nothing else, whatever the batch size; its length is the number of
\* train() calls that got past the critic loop: the completed ones, those
\* that raised in the actor step, and the one in flight past the loop.
QLossPerCriticPass ==
  /\ [](Len(q_losses) = completed + late_raised
                        + (IF pc \in {"train_actor", "soft_update"} THEN 1 ELSE 0))
  /\ [][q_losses' # q_losses =>
          /\ pc = "train_critic.loop"
          /\ jj = replay_batch_size
          /\ steps' = <<"get_sample", "train_critic">>
          /\ Len(q_losses') = Len(q_losses) + 1
          /\ SubSeq(q_losses', 1, Len(q_losses)) = q_losses]_vars
  /\ [][completed' # completed =>
          /\ completed' = completed + 1
          /\ Len(steps') = Len(train_calls)
          /\ q_losses' = q_losses]_vars

\* C11 witness: one train() call on batches of two has returned and another
\* has raised in its actor step; the trace holds two entries.
QLossAfterLateRaise ==
  /\ pc = "idle"
  /\ replay_batch_size = 2
  /\ completed = 1
  /\ late_raised = 1
  /\ Len(q_losses) = 2

\* C12: a critic call failing at sample j ends train() at once, with no
\* retry: the local critic keeps the updates of samples 0..j-1, no later
\* sample is processed, and the call makes no actor step, no target
\* synchronization and no trace entry.
CriticFailureEndsTrain ==
  /\ [][(pc = "train_critic.loop" /\ call'.op = "train") =>
          /\ call'.arg = <<"raised", "train_critic", jj>>
          /\ jj > 0 => (call.op = "update_weights" /\ call.arg[1] = jj - 1)
          /\ pc' = "idle"
          /\ steps' = <<"get_sample">>
          /\ UNCHANGED <<critic, critic_target, actor, actor_target, q_losses,
                         completed>>]_vars
  /\ [][(pc = "idle") => (pc' \in {"idle", "train_critic"})]_vars
  /\ []((pc = "idle" /\ call.op = "train" /\ Len(call.arg) = 3) =>
          steps = <<"get_sample">>)

\* C12 witness: the first train() call has raised at sample 1; the update of
\* sample 0 is still in the local critic, which differs from the target
\* holding the construction-time weights, and the trace is empty.
CriticRaisedAtSecondSample ==
  /\ pc = "idle"
  /\ call = [op |-> "train", arg |-> <<"raised", "train_critic", 1>>]
  /\ completed = 0 /\ late_raised = 0
  /\ q_losses = << >>
  /\ critic # critic_target

TargetsChangeOnlyInSync ==
  /\ [][(critic_target' # critic_target \/ actor_target' # actor_target) =>
          (call'.op = "soft_update" /\ pc \in {"soft_update", "idle"})]_vars
  /\ [][(pc \in {"train_critic", "train_critic.loop", "train_actor"}) =>
          UNCHANGED <<critic_target, actor_target>>]_vars
  /\ [][call'.op = "soft_update" => UNCHANGED <<critic, actor>>]_vars

\* C16 witness: a train() call has synchronized with 0 < tau < 1 after its
\* critic loop and actor step had moved the local weights: the targets have
\* moved and the local weights still differ from them.
SyncAfterLocalMoved ==
  /\ pc = "idle"
  /\ steps = train_calls
  /\ call = [op |-> "soft_update", arg |-> <<TRUE>>]
  /\ critic # critic_target
  /\ actor # actor_target

\* ---- action selection (SpecAction)

\* C10: the action get_action returns lies componentwise within the
\* environment's declared bounds [low, high], for every state, noise scale
\* and episode index >= 1.
ActionWithinDeclaredBounds ==
  call.op = "get_action" =>
    \A i \in DOMAIN action : low[i] <= action[i] /\ action[i] <= high[i]

\* ---- the gradient bridge (SpecDerivative)

\* C13, as stated: for the critic Q(s, a) = -||a||^2 the estimated partial
\* dQ/da_i has the sign of -a_i for every sample and every coordinate with
\* a_i # 0, for every epsilon > 0.
GradOppositeToAction ==
  (call.op = "get_action_derivative" /\ synthetic = "negnorm") =>
    \A i \in 1 .. ActionN, j \in DOMAIN d_actions :
      /\ d_actions[j][i] > 0 => grads[i][j][1] < 0
      /\ d_actions[j][i] < 0 => grads[i][j][1] > 0

\* C13, amended: for the critic Q(s, a) = -||a||^2 the estimated partial
\* never has the sign of a_i; it is -2 * a_i when a_i + epsilon and
\* a_i - epsilon are formed without rounding, has the sign of -a_i whenever
\* the two rounded values differ in magnitude, and is 0 when they do not
\* (a_i absorbed by epsilon).
GradNeverAlongAction ==
  (call.op = "get_action_derivative" /\ synthetic = "negnorm") =>
    \A i \in 1 .. ActionN, j \in DOMAIN d_actions :
      LET a == d_actions[j][i]
          up == float32(a + epsilon)
          down == float32(a - epsilon)
          g == grads[i][j]
      IN /\ a > 0 => g[1] <= 0
         /\ a < 0 => g[1] >= 0
         /\ (a # 0 /\ Abs(up) # Abs(down)) => g[1] # 0
         /\ (a # 0 /\ Abs(up) = Abs(down)) => g[1] = 0
         /\ (up = a + epsilon /\ down = a - epsilon) =>
              g[1] = -2 * a * g[2]

\* C13 witness: on a batch of two the bridge has returned -2 * a_i for a
\* positive and for a negative entry, and for a third, positive entry a
\* negative estimate that rounding moved away from -2 * a_i.
GradExactAndRounded ==
  /\ call.op = "get_action_derivative"
  /\ synthetic = "negnorm"
  /\ replay_batch_size = 2
  /\ d_actions[1][1] > 0 /\ grads[1][1] = <<-4 * d_actions[1][1] * epsilon, 2 * epsilon>>
  /\ d_actions[2][2] < 0 /\ grads[2][2] = <<-4 * d_actions[2][2] * epsilon, 2 * epsilon>>
  /\ d_actions[1][2] > 0 /\ grads[2][1][1] < 0
  /\ grads[2][1][1] # -4 * d_actions[1][2] * epsilon

====
